---- MODULE Spec2Model ----
(***************************************************************************)
(* Model of the quiz application of src/app.py: the Streamlit session      *)
(* state, one action per script run (one per widget event), the grader's   *)
(* reply parsing and the averaging of the scores.                          *)
(*                                                                         *)
(* Texts the code inspects character by character (the rationale, the      *)
(* grader's reply) are sequences of one-character strings over the         *)
(* alphabet  " " "0".."9" "." "+" "-" and the letters "o" "k" "x"; on this *)
(* alphabet Python's float() accepts exactly [sign] digits [. digits]      *)
(* with at least one digit.  Numbers are exact rationals [num, den].       *)
(***************************************************************************)
EXTENDS Integers, Sequences, FiniteSets, TLC

\* Bound on the length of st.session_state.answers (the code has none).
MaxAnswers == 3

----------------------------------------------------------------------------
(* Rationals: the scores and their mean *)

Abs(n) == IF n < 0 THEN -n ELSE n

RECURSIVE GCD(_, _)
GCD(a, b) == IF b = 0 THEN a ELSE GCD(b, a % b)

\* n/d in lowest terms, d > 0
Rat(n, d) ==
    LET g == GCD(Abs(n), d)
    IN  [num |-> n \div g, den |-> d \div g]

Zero == Rat(0, 1)

RatAdd(p, q) == Rat(p.num * q.den + q.num * p.den, p.den * q.den)

\* sum(scores), line 217
RECURSIVE sum(_)
sum(s) == IF s = <<>> THEN Zero ELSE RatAdd(Head(s), sum(Tail(s)))

\* true division by an integer, line 217
RatDivInt(p, n) == Rat(p.num, p.den * n)

\* a plausible slip: floor division (//) instead of true division (/)
FloorMean(scores) ==
    LET t == sum(scores)
    IN  Rat(t.num \div (t.den * Len(scores)), 1)

\* sum(scores) / len(scores), line 217
Mean(scores) == RatDivInt(sum(scores), Len(scores))

----------------------------------------------------------------------------
(* Text: str.strip() and float() *)

Whitespace == {" "}
Digits == {"0", "1", "2", "3", "4", "5", "6", "7", "8", "9"}

DigitVal(c) ==
    CASE c = "0" -> 0 [] c = "1" -> 1 [] c = "2" -> 2 [] c = "3" -> 3
      [] c = "4" -> 4 [] c = "5" -> 5 [] c = "6" -> 6 [] c = "7" -> 7
      [] c = "8" -> 8 [] c = "9" -> 9

RECURSIVE LStrip(_)
LStrip(s) ==
    IF s # <<>> /\ Head(s) \in Whitespace THEN LStrip(Tail(s)) ELSE s

RECURSIVE RStrip(_)
RStrip(s) ==
    IF s # <<>> /\ s[Len(s)] \in Whitespace
    THEN RStrip(SubSeq(s, 1, Len(s) - 1))
    ELSE s

\* a plausible slip: no strip at all
NoStrip(s) == s

\* str.strip()
Strip(s) == RStrip(LStrip(s))

RECURSIVE DigitsValue(_)
DigitsValue(s) ==
    IF s = <<>> THEN 0
    ELSE 10 * DigitsValue(SubSeq(s, 1, Len(s) - 1)) + DigitVal(s[Len(s)])

RECURSIVE Pow10(_)
Pow10(k) == IF k = 0 THEN 1 ELSE 10 * Pow10(k - 1)

IsDigit(c) == c \in Digits

\* float(text): [ok |-> FALSE] stands for ValueError
Float(text) ==
    LET signed == text # <<>> /\ Head(text) \in {"+", "-"}
        body   == IF signed THEN Tail(text) ELSE text
        dots   == {i \in 1..Len(body) : body[i] = "."}
        digs   == SelectSeq(body, IsDigit)
        wellformed ==
            /\ \A i \in 1..Len(body) : body[i] \in Digits \cup {"."}
            /\ Cardinality(dots) <= 1
            /\ digs # <<>>
        frac   == IF dots = {} THEN 0
                  ELSE Len(body) - (CHOOSE i \in dots : TRUE)
        mag    == DigitsValue(digs)
        n      == IF signed /\ Head(text) = "-" THEN -mag ELSE mag
    IN  IF wellformed
        THEN [ok |-> TRUE, val |-> Rat(n, Pow10(frac))]
        ELSE [ok |-> FALSE, val |-> Zero]

----------------------------------------------------------------------------
(* The database: the quizzes table and the questions table *)

\* rows (id, title) of the quizzes table, line 34
Quizzes == << <<"1", "General Knowledge">>, <<"2", "Science">> >>

\* rows (id, question, option_a, option_b, option_c, option_d), line 58
\* (yes/no questions fill the four option columns with two texts)
QA == <<"11", "Is Paris in France?", "Yes", "No", "Yes", "No">>
QB == <<"12", "Is Mars a star?", "True", "False", "True", "False">>
QC == <<"21", "H2O is?", "Salt", "Water", "Water", "Salt">>

QuizIds == {Quizzes[i][1] : i \in 1..Len(Quizzes)}

\* contents of the questions table, per quiz_id: two of its possible states
DbOld == [q \in QuizIds |-> IF q = "1" THEN <<QA, QB>> ELSE <<>>]
DbNew == [q \in QuizIds |-> IF q = "1" THEN <<QB>> ELSE <<QC, QA>>]
DbStates == {DbOld, DbNew}

\* what the candidate can type as a rationale
Rationales == {<<>>, <<" ">>, <<" ", "x">>}

\* what the grader can answer: llm.complete returns a text or raises
GraderTexts == {<<" ", "7", ".", "5">>, <<"1", "2">>, <<"o", "k">>}
Returned(t) == [raised |-> FALSE, text |-> t]
Raised == [raised |-> TRUE, text |-> <<>>]

\* what the candidate can type as a name
Names == {"Alice"}

None == "None"

VARIABLES
    username,               \* st.session_state.username
    selected_quiz,          \* st.session_state.selected_quiz
    questions,              \* st.session_state.questions
    current_question_index, \* st.session_state.current_question_index
    answers,                \* st.session_state.answers
    quiz_completed,         \* st.session_state.quiz_completed
    total_score,            \* st.session_state.total_score
    proceed_to_quiz,        \* st.session_state.proceed_to_quiz
    quizzes,                \* the quiz list the last run rendered (line 142), <<>> if none
    db,                     \* the questions table
    event,                  \* the widget event the last run handled
    scores,                 \* the last run's local list `scores` (line 207)
    graded,                 \* the last run's calls of llm.complete, with their outcomes
    logged,                 \* the last run's calls of log_quiz_results, with their outcomes
    fetched                 \* the last run's numbers of calls of fetch_quizzes, fetch_questions

session == <<username, selected_quiz, questions, current_question_index,
             answers, quiz_completed, total_score, proceed_to_quiz>>
vars == <<username, selected_quiz, questions, current_question_index, answers,
          quiz_completed, total_score, proceed_to_quiz, quizzes, db, event,
          scores, graded, logged, fetched>>

\* which step of main() the session state selects (lines 135, 141, 156, 232)
Phase ==
    IF username = "" THEN "AwaitingName"
    ELSE IF ~proceed_to_quiz THEN "AwaitingQuizSelection"
    ELSE IF quiz_completed THEN "Completed"
    ELSE IF questions # <<>> THEN "InProgress"
    ELSE "Blank"

\* lines 117-132, and the database in any of its states
Init ==
    /\ username = ""
    /\ selected_quiz = None
    /\ questions = <<>>
    /\ current_question_index = 0
    /\ answers = <<>>
    /\ quiz_completed = FALSE
    /\ total_score = Zero
    /\ proceed_to_quiz = FALSE
    /\ quizzes = <<>>
    /\ db \in DbStates
    /\ event = [op |-> "start", accepted |-> TRUE, choice |-> "", rationale |-> <<>>]
    /\ fetched = [quizzes |-> 0, questions |-> 0]
    /\ scores = <<>>
    /\ graded = <<>>
    /\ logged = <<>>

\* a run that grades nothing and logs nothing
Quiet == scores' = <<>> /\ graded' = <<>> /\ logged' = <<>>

\* the event of this step, whether the code acted on it, and the radio's value
\* and the text area's content when the event is Next or Submit
HandledAnswer(op, ok, selected_answer, rationale) ==
    event' = [op |-> op, accepted |-> ok, choice |-> selected_answer,
              rationale |-> rationale]
Handled(op, ok) == HandledAnswer(op, ok, "", <<>>)

\* how often this run calls fetch_quizzes (line 142) and fetch_questions (line 151)
Fetched(nquizzes, nquestions) ==
    fetched' = [quizzes |-> nquizzes, questions |-> nquestions]

----------------------------------------------------------------------------
(* Step 2: quiz selection *)

\* fetch_quizzes(): the rows, or [] when the query fails
fetch_quizzes(up) == IF up THEN Quizzes ELSE <<>>

\* fetch_questions(quiz_id): the rows, or [] when the query fails
fetch_questions(quiz_id, up) == IF up THEN db[quiz_id] ELSE <<>>

\* {quiz[1]: quiz[0] for quiz in quizzes}: a later row replaces an earlier title
quiz_options(qs) ==
    [t \in {qs[i][2] : i \in 1..Len(qs)} |->
        LET last == CHOOSE i \in 1..Len(qs) :
                        /\ qs[i][2] = t
                        /\ \A j \in 1..Len(qs) : qs[j][2] = t => j <= i
        IN  qs[last][1]]

\* the selectbox's value: its first option when it was not on the last page,
\* else what it had (or what the candidate picks now)
SelectboxDefault(qs) == qs[1][2]
SelectboxCurrent(qs) ==
    IF quizzes = <<>> THEN SelectboxDefault(qs)
    ELSE CHOOSE t \in DOMAIN quiz_options(qs) : quiz_options(qs)[t] = selected_quiz

\* lines 141-146 and 152-153 of a run in which Proceed is not pressed
SelectStep(up, pick) ==
    LET qs == fetch_quizzes(up)
    IN  /\ quizzes' = qs
        /\ Fetched(1, 0)
        /\ selected_quiz' =
              IF qs # <<>>
              THEN quiz_options(qs)[IF pick = None THEN SelectboxCurrent(qs) ELSE pick]
              ELSE selected_quiz

\* a plausible slip: Step 2 does not ask for a name (line 141 without its first test)
EnterNameSelectsAnyway(name, up) ==
    /\ username = ""
    /\ username' = name
    /\ SelectStep(up, None)
    /\ Handled("setName", name # "")
    /\ Quiet
    /\ UNCHANGED <<questions, current_question_index, answers, quiz_completed,
                   total_score, proceed_to_quiz, db>>

\* Step 1: the candidate enters a name (possibly none), lines 135-146
EnterName(name, up) ==
    /\ username = ""
    /\ username' = name
    /\ IF name # ""
       THEN SelectStep(up, None)
       ELSE Fetched(0, 0) /\ UNCHANGED <<quizzes, selected_quiz>>
    /\ Handled("setName", name # "")
    /\ Quiet
    /\ UNCHANGED <<questions, current_question_index, answers, quiz_completed,
                   total_score, proceed_to_quiz, db>>

\* the selection page is run again with no widget event (Streamlit's Rerun),
\* lines 141-146; on the other pages such a run changes nothing
Rerun(up) ==
    /\ username # "" /\ ~proceed_to_quiz
    /\ SelectStep(up, None)
    /\ Handled("rerun", TRUE)
    /\ Quiet
    /\ UNCHANGED <<username, questions, current_question_index, answers,
                   quiz_completed, total_score, proceed_to_quiz, db>>

\* the candidate picks a title in the selectbox, lines 141-146
SelectQuiz(title, up) ==
    /\ username # "" /\ ~proceed_to_quiz
    /\ quizzes # <<>>
    /\ title \in DOMAIN quiz_options(quizzes)
    /\ SelectStep(up, title)
    /\ Handled("selectQuiz", up)
    /\ Quiet
    /\ UNCHANGED <<username, questions, current_question_index, answers,
                   quiz_completed, total_score, proceed_to_quiz, db>>

\* the candidate presses Proceed, lines 141-151
Proceed(up, qup) ==
    /\ username # "" /\ ~proceed_to_quiz
    /\ quizzes # <<>>
    /\ LET qs == fetch_quizzes(up)
       IN  IF qs # <<>>
           THEN /\ quizzes' = qs
                /\ selected_quiz' = quiz_options(qs)[SelectboxCurrent(qs)]
                /\ proceed_to_quiz' = TRUE
                /\ questions' = fetch_questions(selected_quiz', qup)
                /\ Fetched(1, 1)
           ELSE /\ quizzes' = qs
                /\ Fetched(1, 0)
                /\ UNCHANGED <<selected_quiz, proceed_to_quiz, questions>>
    /\ Handled("proceed", up)
    /\ Quiet
    /\ UNCHANGED <<username, current_question_index, answers, quiz_completed,
                   total_score, db>>

----------------------------------------------------------------------------
(* Step 3: the questions *)

\* the question on the page, lines 157-158
Current == questions[current_question_index + 1]

\* the radio's options, line 166
Options(q) == {q[3], q[4], q[5], q[6]}

\* a plausible slip: the entry records the radio's first option, not its value
EntryFirstOption(q, selected_answer, rationale) ==
    [question |-> q[2], selected_answer |-> q[3], rationale |-> rationale]

\* the dictionary appended at lines 187-191 and 200-204
Entry(q, selected_answer, rationale) ==
    [question |-> q[2], selected_answer |-> selected_answer, rationale |-> rationale]

\* `not rationale.strip()`, lines 183 and 196
Missing(rationale) == Strip(rationale) = <<>>

\* a plausible slip: a parse failure counts as full marks
ParseFailureScoresTen(text) ==
    LET f == Float(Strip(text))
    IN  IF f.ok THEN f.val ELSE Rat(10, 1)

\* get_score_from_groq once llm.complete has returned `text`, lines 107-111
get_score_from_groq(text) ==
    LET f == Float(Strip(text))
    IN  IF f.ok THEN f.val ELSE Zero

\* the outcomes of the calls of llm.complete in the loop of lines 208-214 over
\* n answers: n texts, or fewer texts and then a call that raises
GraderRuns(n) ==
    UNION {
        {[i \in 1..k |-> Returned(t[i])] : t \in [1..k -> GraderTexts]} : k \in {n}
    } \cup
    UNION {
        {[i \in 1..k |-> IF i < k THEN Returned(t[i]) ELSE Raised] :
            t \in [1..(k - 1) -> GraderTexts]} : k \in 1..n
    }

\* membership in GraderRuns(n)
IsGraderRun(o, n) ==
    /\ Len(o) \in 1..n
    /\ \A i \in 1..Len(o) :
          /\ o[i].raised <=> (o[i] = Raised)
          /\ o[i].raised => i = Len(o)
          /\ ~o[i].raised => o[i].text \in GraderTexts
    /\ Len(o) < n => o[Len(o)].raised

\* a plausible slip: going back also takes the last answer off the log
GoBackPops ==
    /\ Phase = "InProgress"
    /\ IF current_question_index > 0
       THEN /\ current_question_index' = current_question_index - 1
            /\ answers' = SubSeq(answers, 1, Len(answers) - 1)
       ELSE UNCHANGED <<current_question_index, answers>>
    /\ Handled("goBack", current_question_index > 0)
    /\ Fetched(0, 0)
    /\ quizzes' = <<>>
    /\ Quiet
    /\ UNCHANGED <<username, selected_quiz, questions, quiz_completed,
                   total_score, proceed_to_quiz, db>>

\* Previous, lines 176-179; the button is not on the page at the first question
GoBack ==
    /\ Phase = "InProgress"
    /\ IF current_question_index > 0
       THEN current_question_index' = current_question_index - 1
       ELSE UNCHANGED current_question_index
    /\ Handled("goBack", current_question_index > 0)
    /\ Fetched(0, 0)
    /\ quizzes' = <<>>
    /\ Quiet
    /\ UNCHANGED <<username, selected_quiz, questions, answers, quiz_completed,
                   total_score, proceed_to_quiz, db>>

\* a plausible slip: Next is also offered at the last question
GoNextAtLast(selected_answer, rationale) ==
    /\ Phase = "InProgress"
    /\ Len(answers) < MaxAnswers
    /\ IF Missing(rationale)
       THEN UNCHANGED <<answers, current_question_index>>
       ELSE /\ answers' = Append(answers, Entry(Current, selected_answer, rationale))
            /\ current_question_index' = current_question_index + 1
    /\ HandledAnswer("goNext", ~Missing(rationale), selected_answer, rationale)
    /\ Fetched(0, 0)
    /\ quizzes' = <<>>
    /\ Quiet
    /\ UNCHANGED <<username, selected_quiz, questions, quiz_completed,
                   total_score, proceed_to_quiz, db>>

\* a plausible slip: an entry for a question answered before replaces the old one
GoNextReplaces(selected_answer, rationale) ==
    /\ Phase = "InProgress"
    /\ current_question_index < Len(questions) - 1
    /\ Len(answers) < MaxAnswers
    /\ IF Missing(rationale)
       THEN UNCHANGED <<answers, current_question_index>>
       ELSE /\ answers' =
                 LET new == Entry(Current, selected_answer, rationale)
                     old == {i \in 1..Len(answers) : answers[i].question = new.question}
                 IN  IF old = {} THEN Append(answers, new)
                     ELSE [i \in 1..Len(answers) |->
                              IF i \in old THEN new ELSE answers[i]]
            /\ current_question_index' = current_question_index + 1
    /\ HandledAnswer("goNext", ~Missing(rationale), selected_answer, rationale)
    /\ Fetched(0, 0)
    /\ quizzes' = <<>>
    /\ Quiet
    /\ UNCHANGED <<username, selected_quiz, questions, quiz_completed,
                   total_score, proceed_to_quiz, db>>

\* a plausible slip: Next reads the questions from the table again
GoNextRefetches(selected_answer, rationale) ==
    /\ Phase = "InProgress"
    /\ current_question_index < Len(questions) - 1
    /\ Len(answers) < MaxAnswers
    /\ IF Missing(rationale)
       THEN UNCHANGED <<answers, current_question_index>>
       ELSE /\ answers' = Append(answers, Entry(Current, selected_answer, rationale))
            /\ current_question_index' = current_question_index + 1
    /\ questions' = fetch_questions(selected_quiz, TRUE)
    /\ HandledAnswer("goNext", ~Missing(rationale), selected_answer, rationale)
    /\ Fetched(0, 1)
    /\ quizzes' = <<>>
    /\ Quiet
    /\ UNCHANGED <<username, selected_quiz, quiz_completed,
                   total_score, proceed_to_quiz, db>>

\* a plausible slip: Next moves on without logging the answer
GoNextSkipsLog(selected_answer, rationale) ==
    /\ Phase = "InProgress"
    /\ current_question_index < Len(questions) - 1
    /\ Len(answers) < MaxAnswers
    /\ IF Missing(rationale)
       THEN UNCHANGED current_question_index
       ELSE current_question_index' = current_question_index + 1
    /\ HandledAnswer("goNext", ~Missing(rationale), selected_answer, rationale)
    /\ Fetched(0, 0)
    /\ quizzes' = <<>>
    /\ Quiet
    /\ UNCHANGED <<username, selected_quiz, questions, quiz_completed,
                   total_score, proceed_to_quiz, db, answers>>

\* Next, lines 181-193
GoNext(selected_answer, rationale) ==
    /\ Phase = "InProgress"
    /\ current_question_index < Len(questions) - 1
    /\ Len(answers) < MaxAnswers
    /\ IF Missing(rationale)
       THEN UNCHANGED <<answers, current_question_index>>
       ELSE /\ answers' = Append(answers, Entry(Current, selected_answer, rationale))
            /\ current_question_index' = current_question_index + 1
    /\ HandledAnswer("goNext", ~Missing(rationale), selected_answer, rationale)
    /\ Fetched(0, 0)
    /\ quizzes' = <<>>
    /\ Quiet
    /\ UNCHANGED <<username, selected_quiz, questions, quiz_completed,
                   total_score, proceed_to_quiz, db>>

\* log_quiz_results(...), lines 72-95: the call and whether the INSERT went through
LogCall(stored) ==
    [quiz_id |-> selected_quiz, candidate_name |-> username,
     answers |-> answers', total_score |-> total_score', stored |-> stored]

\* a plausible slip: a failed INSERT raises out of log_quiz_results
LogRaisesWhenNotStored(stored) == stored

\* log_quiz_results returns to line 228 whether or not the INSERT went through:
\* `except Exception` (lines 89-90) reports the failure and swallows it
log_quiz_results_returns(stored) == TRUE

\* a plausible slip: Submit grades the log without appending the last answer;
\* with an empty log line 217 divides by zero and main() is left there
SubmitForgetsAppend(selected_answer, rationale, outcomes, stored) ==
    /\ Phase = "InProgress"
    /\ current_question_index >= Len(questions) - 1
    /\ Len(answers) < MaxAnswers
    /\ quizzes' = <<>>
    /\ Fetched(0, 0)
    /\ UNCHANGED <<username, selected_quiz, questions, current_question_index,
                   proceed_to_quiz, db, answers>>
    /\ IF Missing(rationale)
       THEN /\ HandledAnswer("submit", FALSE, selected_answer, rationale)
            /\ outcomes = <<>>
            /\ Quiet
            /\ UNCHANGED <<quiz_completed, total_score>>
       ELSE /\ HandledAnswer("submit", TRUE, selected_answer, rationale)
            /\ Len(outcomes) = Len(answers) + 1
            /\ \A i \in 1..Len(outcomes) : ~outcomes[i].raised
            /\ graded' = [i \in 1..Len(answers) |->
                            [request |-> answers[i], reply |-> outcomes[i]]]
            /\ scores' = [i \in 1..Len(answers) |->
                            get_score_from_groq(outcomes[i].text)]
            /\ IF answers = <<>>
               THEN /\ logged' = <<>>
                    /\ UNCHANGED <<quiz_completed, total_score>>
               ELSE /\ total_score' = Mean(scores')
                    /\ logged' = <<LogCall(stored)>>
                    /\ quiz_completed' = TRUE

\* Submit, lines 194-229
Submit(selected_answer, rationale, outcomes, stored) ==
    /\ Phase = "InProgress"
    /\ current_question_index >= Len(questions) - 1
    /\ Len(answers) < MaxAnswers
    /\ quizzes' = <<>>
    /\ Fetched(0, 0)
    /\ UNCHANGED <<username, selected_quiz, questions, current_question_index,
                   proceed_to_quiz, db>>
    /\ IF Missing(rationale)
       THEN /\ HandledAnswer("submit", FALSE, selected_answer, rationale)
            /\ outcomes = <<>>
            /\ Quiet
            /\ UNCHANGED <<answers, quiz_completed, total_score>>
       ELSE /\ HandledAnswer("submit", TRUE, selected_answer, rationale)
            /\ IsGraderRun(outcomes, Len(answers) + 1)
            /\ answers' = Append(answers, Entry(Current, selected_answer, rationale))
            /\ graded' = [i \in 1..Len(outcomes) |->
                            [request |-> answers'[i], reply |-> outcomes[i]]]
            /\ IF \E i \in 1..Len(outcomes) : outcomes[i].raised
               THEN \* the exception leaves main(): lines 214-229 are not reached
                    /\ scores' = [i \in 1..(Len(outcomes) - 1) |->
                                    get_score_from_groq(outcomes[i].text)]
                    /\ logged' = <<>>
                    /\ UNCHANGED <<quiz_completed, total_score>>
               ELSE /\ scores' = [i \in 1..Len(outcomes) |->
                                    get_score_from_groq(outcomes[i].text)]
                    /\ total_score' = Mean(scores')
                    /\ logged' = <<LogCall(stored)>>
                    /\ IF log_quiz_results_returns(stored)
                       THEN quiz_completed' = TRUE
                       ELSE UNCHANGED quiz_completed

----------------------------------------------------------------------------
(* Step 4: the end screen *)

\* a plausible slip: the retake forgets line 241
RetakeKeepsAnswers(up) ==
    /\ quiz_completed
    /\ current_question_index' = 0
    /\ quiz_completed' = FALSE
    /\ total_score' = Zero
    /\ proceed_to_quiz' = FALSE
    /\ SelectStep(up, None)
    /\ Handled("retake", TRUE)
    /\ Quiet
    /\ UNCHANGED <<username, questions, db, answers>>

\* Retake Quiz, lines 238-245, and the run st.rerun() starts (lines 141-146)
Retake(up) ==
    /\ quiz_completed
    /\ current_question_index' = 0
    /\ answers' = <<>>
    /\ quiz_completed' = FALSE
    /\ total_score' = Zero
    /\ proceed_to_quiz' = FALSE
    /\ SelectStep(up, None)
    /\ Handled("retake", TRUE)
    /\ Quiet
    /\ UNCHANGED <<username, questions, db>>

\* a plausible slip: Exit clears the quiz but keeps the name
ExitKeepsName ==
    /\ quiz_completed
    /\ selected_quiz' = None
    /\ questions' = <<>>
    /\ current_question_index' = 0
    /\ answers' = <<>>
    /\ quiz_completed' = FALSE
    /\ total_score' = Zero
    /\ proceed_to_quiz' = FALSE
    /\ quizzes' = <<>>
    /\ Handled("reset", TRUE)
    /\ Fetched(0, 0)
    /\ Quiet
    /\ UNCHANGED <<db, username>>

\* Exit, lines 247-249, and the run st.rerun() starts (lines 117-136)
Exit ==
    /\ quiz_completed
    /\ username' = ""
    /\ selected_quiz' = None
    /\ questions' = <<>>
    /\ current_question_index' = 0
    /\ answers' = <<>>
    /\ quiz_completed' = FALSE
    /\ total_score' = Zero
    /\ proceed_to_quiz' = FALSE
    /\ quizzes' = <<>>
    /\ Handled("reset", TRUE)
    /\ Fetched(0, 0)
    /\ Quiet
    /\ UNCHANGED db

----------------------------------------------------------------------------
(* The environment *)

\* somebody edits the questions table
DbChange ==
    /\ db' \in DbStates \ {db}
    /\ UNCHANGED <<username, selected_quiz, questions, current_question_index,
                   answers, quiz_completed, total_score, proceed_to_quiz, quizzes,
                   event, scores, graded, logged, fetched>>

\* what the radio on the page offers, if a question is on the page
Choices == IF Phase = "InProgress" THEN Options(Current) ELSE {}

\* the outcomes the grader can produce in one Submit with this rationale: no
\* call when the rationale is missing, else one per answer, the new one included
GraderRunsOf == [n \in 1..MaxAnswers |-> GraderRuns(n)]
SubmitRuns(rationale) ==
    IF Phase # "InProgress" \/ Missing(rationale) THEN {<<>>}
    ELSE IF Len(answers) >= MaxAnswers THEN {}
    ELSE GraderRunsOf[Len(answers) + 1]

\* the outcomes of the INSERT of log_quiz_results: none when it is not called
StoreRuns(o) ==
    IF o = <<>> \/ \E i \in 1..Len(o) : o[i].raised THEN {FALSE} ELSE BOOLEAN

\* the same, when no call of llm.complete raises
TextRuns(rationale) ==
    {o \in SubmitRuns(rationale) : \A i \in 1..Len(o) : ~o[i].raised}

Interact ==
    \/ \E name \in Names \cup {""}, up \in BOOLEAN : EnterName(name, up)
    \/ \E up \in BOOLEAN : Rerun(up)
    \/ \E title \in {Quizzes[i][2] : i \in 1..Len(Quizzes)}, up \in BOOLEAN :
          SelectQuiz(title, up)
    \/ \E up \in BOOLEAN, qup \in BOOLEAN : Proceed(up, qup)
    \/ GoBack
    \/ \E a \in Choices, r \in Rationales : GoNext(a, r)
    \/ \E up \in BOOLEAN : Retake(up)
    \/ Exit
    \/ DbChange

Next ==
    \/ Interact
    \/ \E a \in Choices, r \in Rationales :
          \E o \in SubmitRuns(r) : \E stored \in StoreRuns(o) : Submit(a, r, o, stored)

Spec == Init /\ [][Next]_vars

\* the same program with a grader whose calls always return
NextGraderUp ==
    \/ Interact
    \/ \E a \in Choices, r \in Rationales :
          \E o \in TextRuns(r) : \E stored \in StoreRuns(o) : Submit(a, r, o, stored)

SpecGraderUp == Init /\ [][NextGraderUp]_vars

----------------------------------------------------------------------------
(* Properties *)

\* this step is a run of main() that handled the event op (the only other
\* steps are edits of the questions table)
Ran(op) == event'.op = op /\ db' = db

\* the text is empty or whitespace only
Blank(text) == \A i \in 1..Len(text) : text[i] \in Whitespace

\* p = q * n, for rationals p, q and an integer n
IsTimes(p, q, n) == p.num * q.den = q.num * n * p.den

\* C1: while the questions are being answered the AnswerLog has no more entries
\* than the snapshot has questions.
C1_AnswerLogWithinSnapshot ==
    Phase = "InProgress" => Len(answers) <= Len(questions)

\* C2 as stated: Retake puts the session directly back in InProgress with cursor
\* 0, an empty AnswerLog, a cleared aggregate and the same snapshot.
C2_RetakeResumesInProgress ==
    [][Ran("retake") =>
          /\ Phase' = "InProgress"
          /\ current_question_index' = 0
          /\ answers' = <<>>
          /\ total_score' = Zero
          /\ questions' = questions]_vars

\* C2 amended: Retake sets the cursor to 0, empties the AnswerLog, clears the
\* aggregate and keeps the stored snapshot, but puts the session back in
\* AwaitingQuizSelection; and every Proceed that leaves AwaitingQuizSelection
\* replaces the snapshot by what the repository returns then (nothing, when the
\* query fails).
C2_RetakeReturnsToSelection ==
    [][/\ Ran("retake") =>
            /\ Phase' = "AwaitingQuizSelection"
            /\ current_question_index' = 0
            /\ answers' = <<>>
            /\ total_score' = Zero
            /\ ~quiz_completed'
            /\ questions' = questions
       /\ (Ran("proceed") /\ proceed_to_quiz') =>
            questions' \in {db[selected_quiz'], <<>>}]_vars

\* C2 witness: a retake has run after a quiz with answers, and the snapshot is
\* still stored.
C2_Witness ==
    /\ event.op = "retake"
    /\ Phase = "AwaitingQuizSelection"
    /\ questions # <<>>
    /\ answers = <<>>

\* C3: a Proceed that fetches no question leaves the session in
\* AwaitingQuizSelection.
C3_EmptyProceedStaysInSelection ==
    [][(Ran("proceed") /\ event'.accepted /\ questions' = <<>>) =>
          Phase' = "AwaitingQuizSelection"]_vars

\* C4: when a grader call of a Submit raises, that entry scores 0, every entry
\* gets a score and the session reaches Completed.
C4_GraderFailureScoresZero ==
    [][(Ran("submit") /\ event'.accepted) =>
          /\ Len(scores') = Len(answers')
          /\ \A i \in 1..Len(graded') :
                graded'[i].reply.raised => scores'[i] = Zero
          /\ quiz_completed']_vars

\* C5: a Next or Submit whose rationale is empty or whitespace only changes
\* neither the cursor nor the AnswerLog, grades nothing, logs nothing and leaves
\* the session InProgress.
C5_BlankRationaleRejected ==
    [][((Ran("goNext") \/ Ran("submit")) /\ Blank(event'.rationale)) =>
          /\ answers' = answers
          /\ current_question_index' = current_question_index
          /\ graded' = <<>>
          /\ logged' = <<>>
          /\ UNCHANGED <<quiz_completed, total_score, questions>>
          /\ Phase' = "InProgress"]_vars

\* C5 witness: a Submit with a whitespace-only rationale was turned down after
\* an answer had been logged.
C5_Witness ==
    /\ event.op = "submit" /\ ~event.accepted /\ event.rationale = <<" ">>
    /\ Phase = "InProgress"
    /\ answers # <<>>

\* C6: Previous does nothing at the first question and otherwise moves the cursor
\* back by one; it never changes the AnswerLog, the snapshot or the phase.
C6_GoBackOnlyMovesCursor ==
    [][Ran("goBack") =>
          /\ current_question_index' =
                IF current_question_index = 0 THEN 0
                ELSE current_question_index - 1
          /\ answers' = answers
          /\ questions' = questions
          /\ Phase' = Phase]_vars

\* C6 witness: Previous moved the cursor back to a question that has an entry.
C6_Witness ==
    /\ event.op = "goBack" /\ event.accepted
    /\ current_question_index = 0
    /\ answers # <<>>

\* the grader's text is not a number for float()
Unparseable(text) == ~Float(Strip(text)).ok

\* every call of llm.complete of this step returned a text
AllReturned == \A i \in 1..Len(graded') : ~graded'[i].reply.raised

\* C7: a reply that does not parse scores 0 for its entry and does not stop the
\* loop; the other replies score what they say; and when every call returns, all
\* entries are scored, the aggregate is the mean over all of them, the 0
\* included, and the session is Completed.
C7_ParseFailureScoresZero ==
    [][(Ran("submit") /\ event'.accepted) =>
          /\ \A i \in 1..Len(graded') :
                ~graded'[i].reply.raised =>
                   /\ scores'[i] =
                         IF Unparseable(graded'[i].reply.text) THEN Zero
                         ELSE Float(Strip(graded'[i].reply.text)).val
                   /\ (Unparseable(graded'[i].reply.text) /\ i < Len(answers'))
                         => Len(graded') > i
          /\ AllReturned =>
                /\ Len(graded') = Len(answers')
                /\ Len(scores') = Len(answers')
                /\ IsTimes(sum(scores'), total_score', Len(answers'))
                /\ Phase' = "Completed"]_vars

\* C7 witness: a Submit completed although one reply did not parse; that entry
\* scored 0 and another did not.
C7_Witness ==
    /\ Phase = "Completed"
    /\ \E i, j \in 1..Len(graded) :
          /\ graded[i].reply.text = <<"o", "k">>
          /\ scores[i] = Zero
          /\ scores[j] # Zero
    /\ total_score # Zero

\* C8: a Submit that has a score for every entry of the AnswerLog stores as
\* aggregate exactly the sum of the scores divided by the number of entries.
C8_AggregateIsMean ==
    [][(Ran("submit") /\ event'.accepted /\ Len(scores') = Len(answers')) =>
          IsTimes(sum(scores'), total_score', Len(answers'))]_vars

\* C8 witness: a stored aggregate that is no integer and lies above 10.
C8_Witness ==
    /\ Phase = "Completed"
    /\ event.op = "submit"
    /\ total_score.den > 1
    /\ total_score.num > 10 * total_score.den

\* C9: every accepted Submit calls log_quiz_results exactly once, with the
\* selected quiz, the name, the whole AnswerLog and the aggregate; no other run
\* calls it.
C9_LoggedOncePerSubmit ==
    [][db' = db =>
          IF Ran("submit") /\ event'.accepted
          THEN /\ Len(logged') = 1
               /\ logged'[1].quiz_id = selected_quiz
               /\ logged'[1].candidate_name = username
               /\ logged'[1].answers = answers'
               /\ logged'[1].total_score = total_score'
          ELSE logged' = <<>>]_vars

\* C10: when the INSERT of log_quiz_results fails, the Submit still appends its
\* entry, the session is Completed and the aggregate is the mean of the scores.
C10_StoreFailureStillCompletes ==
    [][(Ran("submit") /\ logged' # <<>> /\ ~logged'[1].stored) =>
          /\ Phase' = "Completed"
          /\ Len(answers') = Len(answers) + 1
          /\ Len(scores') = Len(answers')
          /\ IsTimes(sum(scores'), total_score', Len(answers'))]_vars

\* C10 witness: the session is Completed with an aggregate after a Submit whose
\* INSERT failed.
C10_Witness ==
    /\ Phase = "Completed"
    /\ logged # <<>>
    /\ ~logged[1].stored
    /\ total_score # Zero

\* an accepted Next or Submit
Answered == (Ran("goNext") \/ Ran("submit")) /\ event'.accepted

\* C11: Exit from Completed leaves the session state equal to that of a freshly
\* constructed session: no name, no quiz, no questions, cursor 0, empty
\* AnswerLog, aggregate 0, flags down, phase AwaitingName.
C11_ResetIsFreshSession ==
    [][Ran("reset") =>
          /\ Phase = "Completed"
          /\ username' = ""
          /\ selected_quiz' = None
          /\ questions' = <<>>
          /\ current_question_index' = 0
          /\ answers' = <<>>
          /\ quiz_completed' = FALSE
          /\ total_score' = Zero
          /\ proceed_to_quiz' = FALSE
          /\ Phase' = "AwaitingName"]_vars

\* C11 witness: Exit has run and the session awaits a name again.
C11_Witness ==
    /\ event.op = "reset"
    /\ Phase = "AwaitingName"
    /\ answers = <<>>

\* C12: every accepted Next or Submit appends exactly the entry (prompt of the
\* question on the page, selected choice, rationale as typed); and a Completed
\* session with as many entries as questions (one forward pass) has entry i
\* carrying the prompt of question i.
C12_ForwardPassLogsInOrder ==
    /\ [](Phase = "Completed" /\ Len(answers) = Len(questions) =>
            \A i \in 1..Len(questions) : answers[i].question = questions[i][2])
    /\ [][Answered =>
            answers' = Append(answers,
                          [question |-> questions[current_question_index + 1][2],
                           selected_answer |-> event'.choice,
                           rationale |-> event'.rationale])]_vars

\* C12 witness: a two-question quiz completed in one forward pass, with
\* different choices for the two questions.
C12_Witness ==
    /\ Phase = "Completed"
    /\ Len(questions) = 2
    /\ Len(answers) = 2
    /\ answers[1].selected_answer = questions[1][4]
    /\ answers[2].selected_answer = questions[2][3]

\* C13: while InProgress the cursor is within the snapshot; Next is accepted
\* only before the last question and Submit only at the last question.
C13_CursorWithinSnapshot ==
    /\ [](Phase = "InProgress" =>
            /\ 0 <= current_question_index
            /\ current_question_index < Len(questions))
    /\ [][/\ (Ran("goNext") /\ event'.accepted) =>
                current_question_index < Len(questions) - 1
          /\ (Ran("submit") /\ event'.accepted) =>
                current_question_index = Len(questions) - 1]_vars

\* C13 witness: a Submit was accepted at the second of two questions.
C13_Witness ==
    /\ event.op = "submit" /\ event.accepted
    /\ Len(questions) = 2
    /\ current_question_index = 1

\* the question on the page already has an entry in the AnswerLog
AlreadyAnswered ==
    \E i \in 1..Len(answers) :
        answers[i].question = questions[current_question_index + 1][2]

\* C14: an accepted Next or Submit on a question that already has an entry adds
\* a second entry for it and leaves every earlier entry as it was; when the
\* Submit's grader calls all return, every entry, the repeated ones included, is
\* sent to the grader and counted in the aggregate.
C14_RevisitAppendsSecondEntry ==
    [][(Answered /\ AlreadyAnswered) =>
          /\ Len(answers') = Len(answers) + 1
          /\ \A i \in 1..Len(answers) : answers'[i] = answers[i]
          /\ answers'[Len(answers')].question =
                questions[current_question_index + 1][2]
          /\ (Ran("submit") /\ AllReturned) =>
                /\ Len(graded') = Len(answers')
                /\ \A i \in 1..Len(answers') : graded'[i].request = answers'[i]
                /\ Len(scores') = Len(answers')
                /\ IsTimes(sum(scores'), total_score', Len(answers'))]_vars

\* C14 witness: a Completed two-question session with three graded entries, two
\* of them for the same question.
C14_Witness ==
    /\ Phase = "Completed"
    /\ Len(questions) = 2
    /\ Len(answers) = 3
    /\ Len(scores) = 3
    /\ \E i, j \in 1..3 : i < j /\ answers[i].question = answers[j].question

\* C15: an accepted Submit calls the grader exactly once per entry of the
\* AnswerLog, in order, with that entry, and the i-th score is the score of the
\* i-th reply.
C15_OneGraderCallPerEntry ==
    [][(Ran("submit") /\ event'.accepted) =>
          /\ Len(graded') = Len(answers')
          /\ \A i \in 1..Len(answers') : graded'[i].request = answers'[i]
          /\ Len(scores') = Len(answers')
          /\ \A i \in 1..Len(answers') :
                /\ ~graded'[i].reply.raised
                /\ scores'[i] =
                      IF Unparseable(graded'[i].reply.text) THEN Zero
                      ELSE Float(Strip(graded'[i].reply.text)).val]_vars

\* C16: Previous, Next, Submit and edits of the questions table leave the
\* session's question sequence as it is.
C16_SnapshotIsStable ==
    [][(Ran("goBack") \/ Ran("goNext") \/ Ran("submit") \/ db' # db) =>
          questions' = questions]_vars

\* C16 witness: the questions are being answered from a snapshot that the table
\* no longer matches.
C16_Witness ==
    /\ Phase = "InProgress"
    /\ answers # <<>>
    /\ event.op = "goNext"
    /\ questions # db[selected_quiz]

\* C17: while the name is empty the session stays in AwaitingName (no quiz list,
\* no selected quiz, no Proceed, no questions); a name once set is changed by no
\* run but Exit.
C17_NameGatesSession ==
    /\ [](username = "" =>
            /\ Phase = "AwaitingName"
            /\ quizzes = <<>>
            /\ selected_quiz = None
            /\ ~proceed_to_quiz
            /\ questions = <<>>)
    /\ [][(username # "" /\ ~Ran("reset")) => username' = username]_vars

\* C17 witness: an empty name was entered and the session still awaits a name.
C17_Witness ==
    /\ event.op = "setName" /\ ~event.accepted
    /\ username = ""
    /\ Phase = "AwaitingName"

\* C18: once the quiz list is on the selection page no further run of
\* that stay calls fetch_quizzes; fetch_questions is called at most once by a
\* Proceed and by no other run.
C18_CatalogListedOncePerStay ==
    [][db' = db =>
          /\ (Phase = "AwaitingQuizSelection" /\ quizzes # <<>>) =>
                fetched'.quizzes = 0
          /\ fetched'.questions <= (IF Ran("proceed") THEN 1 ELSE 0)]_vars

\* C19: an accepted Submit leaves at least one entry in the AnswerLog, and when
\* its grader calls all return the mean is taken over as many scores, none
\* missing.
C19_MeanOverNonEmptyScores ==
    [][(Ran("submit") /\ event'.accepted) =>
          /\ Len(answers') >= 1
          /\ AllReturned =>
                /\ Len(scores') = Len(answers')
                /\ total_score'.den > 0]_vars

\* C19 witness: a one-question quiz Completed with one entry and one score.
C19_Witness ==
    /\ Phase = "Completed"
    /\ Len(questions) = 1
    /\ Len(answers) = 1
    /\ Len(scores) = 1

\* C20: in a Completed session every question of the snapshot has at least one
\* entry in the AnswerLog.
C20_EveryQuestionAnswered ==
    Phase = "Completed" =>
        \A i \in 1..Len(questions) :
            \E j \in 1..Len(answers) : answers[j].question = questions[i][2]

\* C20 witness: a two-question session Completed after the candidate went back
\* and answered the first question twice.
C20_Witness ==
    /\ Phase = "Completed"
    /\ Len(questions) = 2
    /\ Len(answers) = 3
    /\ answers[1].question = answers[2].question
    /\ answers[3].question = questions[2][2]

====
